---------------------------- MODULE Spec2Model ----------------------------
(***************************************************************************)
(* Smart Commute Assistant: the scheduling loop of smart_commute.py, the   *)
(* traffic sampling and departure calculation of traffic_monitor.py and    *)
(* the notification transport of telegram_bot.py.                          *)
(*                                                                         *)
(* A datetime is an integer number of seconds since 00:00:00 of day 0.     *)
(* A "HH:MM" string is the pair <<HH, MM>>.                                *)
(* A float ratio is the pair of integers it is the quotient of.            *)
(***************************************************************************)
EXTENDS Integers, Sequences, FiniteSets, TLC

VARIABLES
    now,                      \* the wall clock, datetime.now()
    pc,                       \* where SmartCommuteAssistant.start is
    config,                   \* self.config (CommuteConfig)
    notification_sent_today,  \* self.notification_sent_today
    last_notification_time,   \* self.last_notification_time (NoTime = None)
    daily_next_run,           \* next_run of the job of smart_commute.py:193
    monitor_next_run,         \* next_run of the job of smart_commute.py:196
    runnable,                 \* jobs the current run_pending pass still has to run
    passes,                   \* scheduler passes made so far
    trigger,                  \* which handler ran most recently
    cycle,                    \* what that run of the handler did
    sent_log,                 \* notifications handed to the transport, per calendar day
    reset_log,                \* runs of the reset of smart_commute.py:163, per calendar day
    calc,                     \* the last call of a function of traffic_monitor.py on its own
    bot,                      \* the last update the Telegram bot handled
    user_data                 \* the keys set to True in the bot's context.user_data

vars == <<now, pc, config, notification_sent_today, last_notification_time,
          daily_next_run, monitor_next_run, runnable, passes, trigger, cycle,
          sent_log, reset_log, calc, bot, user_data>>

\* what the scheduling loop leaves alone
aside == <<calc, bot, user_data>>

-----------------------------------------------------------------------------
(* Bounds of the model *)

\* scheduler passes (of 30 seconds each) a behaviour runs for
MaxPasses == 22

\* longest time, in seconds, the directions request of one cycle takes
MaxLatency == 1

-----------------------------------------------------------------------------
(* datetime *)

SecondsPerMinute == 60
SecondsPerHour == 60 * SecondsPerMinute
SecondsPerDay == 24 * SecondsPerHour

NoTime == 0 - 1

DateOf(t) == t \div SecondsPerDay
TimeOfDay(t) == t % SecondsPerDay
HourOf(t) == TimeOfDay(t) \div SecondsPerHour
MinuteOf(t) == (TimeOfDay(t) % SecondsPerHour) \div SecondsPerMinute

\* datetime.replace(hour=h, minute=m, second=0): same date, new time of day
Replace(t, h, m) == DateOf(t) * SecondsPerDay + h * SecondsPerHour + m * SecondsPerMinute

\* map(int, "HH:MM".split(':'))
ParseHour(hhmm) == hhmm[1]
ParseMinute(hhmm) == hhmm[2]

\* a datetime from day, hour, minute, second (used to write times down)
At(d, h, m, s) == d * SecondsPerDay + h * SecondsPerHour + m * SecondsPerMinute + s

-----------------------------------------------------------------------------
(* The directions provider: what requests.get and response.json() give.    *)
(* exc: the request raised a RequestException (network error, timeout, bad *)
(* HTTP status, body that is not JSON). A leg without the key              *)
(* duration_in_traffic carries NoValue there.                              *)

NoValue == 0 - 1

Leg(d, dt, dist) == [duration |-> d, duration_in_traffic |-> dt, distance |-> dist]

Route(ls) == [summary |-> "I-5 N", legs |-> ls]

HttpOK(rs) == [exc |-> FALSE, status |-> "OK", routes |-> rs]

HttpError(st) == [exc |-> FALSE, status |-> st, routes |-> <<>>]

HttpException == [exc |-> TRUE, status |-> "", routes |-> <<>>]

\* one-leg routes the provider answers with: <<duration, duration_in_traffic>>
LegDurations ==
    { <<1800, 2700>>, <<2700, NoValue>>, <<1800, 1830>>, <<2000, 2600>>, <<2000, 3000>>,
                  <<60000, 83820>> }

GoodResponses == { HttpOK(<< Route(<< Leg(d[1], d[2], 20000) >>) >>) : d \in LegDurations }

ZeroDurationResponse == HttpOK(<< Route(<< Leg(0, 0, 0) >>) >>)

NoRouteResponse == HttpOK(<<>>)

NoLegResponse == HttpOK(<< Route(<<>>) >>)

FailedResponses == { HttpException, HttpError("ZERO_RESULTS") }

MalformedResponses == { ZeroDurationResponse, NoRouteResponse, NoLegResponse }

Responses == GoodResponses \cup FailedResponses \cup MalformedResponses

-----------------------------------------------------------------------------
(* traffic_monitor.py *)

\* what a Python call gives: a dict ("data"), None, or an uncaught exception
Data(td, tdt, dist, stops) ==
    [kind |-> "data", total_duration |-> td, total_duration_traffic |-> tdt,
     total_distance |-> dist, waypoints |-> stops,
     traffic_ratio |-> <<tdt, td>>]

None == [kind |-> "None", total_duration |-> 0, total_duration_traffic |-> 0,
         total_distance |-> 0, waypoints |-> <<>>, traffic_ratio |-> <<0, 1>>]

Raise == [kind |-> "raise", total_duration |-> 0, total_duration_traffic |-> 0,
          total_distance |-> 0, waypoints |-> <<>>, traffic_ratio |-> <<0, 1>>]

RECURSIVE SumOver(_, _, _)
\* sum(f(leg) for leg in legs), f chosen by what
SumOver(legs, what, i) ==
    IF i > Len(legs) THEN 0
    ELSE LET leg == legs[i]
             v == CASE what = "duration" -> leg.duration
                    [] what = "distance" -> leg.distance
                    [] OTHER -> IF leg.duration_in_traffic = NoValue
                                THEN leg.duration
                                ELSE leg.duration_in_traffic
         IN  v + SumOver(legs, what, i + 1)

\* mutant: a stops list with one entry per waypoint
Stops_PerWaypoint(legs, waypoints) ==
    [i \in 1..Len(waypoints) |->
        [address |-> IF i < Len(legs) THEN waypoints[i] ELSE "Unknown",
         duration_to_next |-> IF i <= Len(legs) THEN legs[i].duration ELSE 0,
         distance_to_next |-> IF i <= Len(legs) THEN legs[i].distance ELSE 0]]

\* the stops list: one entry per leg but the last, when waypoints were given
Stops(legs, waypoints) ==
    IF Len(waypoints) = 0 THEN <<>>
    ELSE [i \in 1..(IF Len(legs) = 0 THEN 0 ELSE Len(legs) - 1) |->
            [address |-> IF i - 1 < Len(waypoints) THEN waypoints[i] ELSE "Unknown",
             duration_to_next |-> legs[i].duration,
             distance_to_next |-> legs[i].distance]]

_parse_route_data(data, waypoints) ==
    IF Len(data.routes) = 0 THEN Raise                    \* data["routes"][0]: IndexError
    ELSE LET legs == data.routes[1].legs
             total_duration == SumOver(legs, "duration", 1)
             total_duration_traffic == SumOver(legs, "duration_in_traffic", 1)
             total_distance == SumOver(legs, "distance", 1)
         IN  IF Len(legs) = 0 THEN Raise                  \* legs[0]: IndexError
             ELSE IF total_duration = 0 THEN Raise        \* ZeroDivisionError
             ELSE Data(total_duration, total_duration_traffic, total_distance,
                       Stops(legs, waypoints))

\* mutant: get_route_with_traffic without the test of data["status"]
get_route_with_traffic_AnyStatus(http, waypoints) ==
    IF http.exc THEN None ELSE _parse_route_data(http, waypoints)

get_route_with_traffic(http, waypoints) ==
    IF http.exc THEN None                                 \* except RequestException
    ELSE IF http.status = "OK" THEN _parse_route_data(http, waypoints)
    ELSE None

\* the arrival datetime the departure is counted back from; clock is datetime.now()
\* mutant: the arrival of today kept when it has passed
TargetArrival_NoRoll(arrival_time, clock) ==
    Replace(clock, ParseHour(arrival_time), ParseMinute(arrival_time))

\* mutant: the arrival rolls to tomorrow already when it equals the clock
TargetArrival_RollAtEqual(arrival_time, clock) ==
    LET today == Replace(clock, ParseHour(arrival_time), ParseMinute(arrival_time))
    IN  IF today <= clock THEN today + SecondsPerDay ELSE today

TargetArrival(arrival_time, clock) ==
    LET today == Replace(clock, ParseHour(arrival_time), ParseMinute(arrival_time))
    IN  IF today < clock THEN today + SecondsPerDay ELSE today

\* mutant: calculate_departure_time that leaves the buffer out
calculate_departure_time_NoBuffer(traffic_data, arrival_time, buffer_minutes, clock) ==
    LET travel == traffic_data.total_duration_traffic
    IN  << TargetArrival(arrival_time, clock) - travel, travel \div SecondsPerMinute >>

\* mutant: calculate_departure_time that subtracts the truncated minutes
calculate_departure_time_WholeMinutes(traffic_data, arrival_time, buffer_minutes, clock) ==
    LET travel_seconds == traffic_data.total_duration_traffic
        travel == travel_seconds + buffer_minutes * SecondsPerMinute
        whole == travel \div SecondsPerMinute
    IN  << TargetArrival(arrival_time, clock) - whole * SecondsPerMinute, whole >>

\* <<departure_time, travel_minutes>>; timedelta(minutes = s / 60 + b) is s + 60 b seconds
calculate_departure_time(traffic_data, arrival_time, buffer_minutes, clock) ==
    LET travel_seconds == traffic_data.total_duration_traffic
        travel == travel_seconds + buffer_minutes * SecondsPerMinute
    IN  << TargetArrival(arrival_time, clock) - travel, travel \div SecondsPerMinute >>

\* ratio >= threshold, both quotients of integers
RatioAtLeast(ratio, threshold) == ratio[1] * threshold[2] >= threshold[1] * ratio[2]

ModerateRatio == <<11, 10>>

\* mutant: analyze_traffic that tests the moderate ratio first
analyze_traffic_ModerateFirst(traffic_data, threshold) ==
    IF ~RatioAtLeast(traffic_data.traffic_ratio, ModerateRatio) THEN "Light traffic"
    ELSE IF RatioAtLeast(traffic_data.traffic_ratio, threshold) THEN "Heavy traffic"
    ELSE "Moderate traffic"

analyze_traffic(traffic_data, threshold) ==
    IF RatioAtLeast(traffic_data.traffic_ratio, threshold) THEN "Heavy traffic"
    ELSE IF RatioAtLeast(traffic_data.traffic_ratio, ModerateRatio) THEN "Moderate traffic"
    ELSE "Light traffic"

-----------------------------------------------------------------------------
(* config.py *)

DefaultBufferMinutes == 10

DefaultThreshold == <<13, 10>>

CommuteConfig(check, arrival) ==
    [work_address |-> "work", home_address |-> "home",
     check_time |-> check, desired_arrival_time |-> arrival,
     buffer_minutes |-> DefaultBufferMinutes,
     heavy_traffic_threshold |-> DefaultThreshold,
     waypoints |-> <<>>]

get_full_route(cfg) == <<cfg.work_address>> \o cfg.waypoints \o <<cfg.home_address>>

\* x in list
In(x, list) == \E i \in 1..Len(list) : list[i] = x

\* mutant: add_waypoint that puts the new stop first
add_waypoint_InFront(cfg, address) ==
    IF ~In(address, cfg.waypoints)
    THEN [config |-> [cfg EXCEPT !.waypoints = <<address>> \o @], result |-> TRUE]
    ELSE [config |-> cfg, result |-> FALSE]

\* the configuration after the call, and what the call returns
add_waypoint(cfg, address) ==
    IF ~In(address, cfg.waypoints)
    THEN [config |-> [cfg EXCEPT !.waypoints = Append(@, address)], result |-> TRUE]
    ELSE [config |-> cfg, result |-> FALSE]

\* list.remove(x): the list without the first x
ListRemove(list, x) ==
    LET i == CHOOSE i \in 1..Len(list) :
                list[i] = x /\ \A j \in 1..(i - 1) : list[j] # x
    IN  SubSeq(list, 1, i - 1) \o SubSeq(list, i + 1, Len(list))

remove_waypoint(cfg, address) ==
    IF In(address, cfg.waypoints)
    THEN [config |-> [cfg EXCEPT !.waypoints = ListRemove(@, address)], result |-> TRUE]
    ELSE [config |-> cfg, result |-> FALSE]

clear_waypoints(cfg) == [cfg EXCEPT !.waypoints = <<>>]

-----------------------------------------------------------------------------
(* smart_commute.py: check_traffic_and_notify *)

DepartNowMinutes == 5
EarlyWarningMinutes == 20
TooEarlyMinutes == 30

\* mutant: the late warning sent without looking at the flag
Decide_LateUnguarded(until, heavy, sent_today) ==
    IF 0 <= until /\ until <= DepartNowMinutes * SecondsPerMinute /\ ~sent_today
        THEN "DepartureAlert"
    ELSE IF heavy /\ DepartNowMinutes * SecondsPerMinute < until
               /\ until <= EarlyWarningMinutes * SecondsPerMinute /\ ~sent_today
        THEN "EarlyWarning"
    ELSE IF until > TooEarlyMinutes * SecondsPerMinute
        THEN "none"
    ELSE IF until < 0
        THEN "LateWarning"
    ELSE "none"

\* mutant: the departure alert with its upper end, five minutes, left out
Decide_StrictFive(until, heavy, sent_today) ==
    IF 0 <= until /\ until < DepartNowMinutes * SecondsPerMinute /\ ~sent_today
        THEN "DepartureAlert"
    ELSE IF heavy /\ DepartNowMinutes * SecondsPerMinute < until
               /\ until <= EarlyWarningMinutes * SecondsPerMinute /\ ~sent_today
        THEN "EarlyWarning"
    ELSE IF until > TooEarlyMinutes * SecondsPerMinute
        THEN "none"
    ELSE IF until < 0
        THEN IF ~sent_today THEN "LateWarning" ELSE "none"
    ELSE "none"

\* mutant: the early warning reaching up to the too-early limit
Decide_EarlyUpToThirty(until, heavy, sent_today) ==
    IF 0 <= until /\ until <= DepartNowMinutes * SecondsPerMinute /\ ~sent_today
        THEN "DepartureAlert"
    ELSE IF heavy /\ DepartNowMinutes * SecondsPerMinute < until
               /\ until <= TooEarlyMinutes * SecondsPerMinute /\ ~sent_today
        THEN "EarlyWarning"
    ELSE IF until > TooEarlyMinutes * SecondsPerMinute
        THEN "none"
    ELSE IF until < 0
        THEN IF ~sent_today THEN "LateWarning" ELSE "none"
    ELSE "none"

\* the if/elif chain of lines 87-115; until is time_until_departure in seconds
Decide(until, heavy, sent_today) ==
    IF 0 <= until /\ until <= DepartNowMinutes * SecondsPerMinute /\ ~sent_today
        THEN "DepartureAlert"
    ELSE IF heavy /\ DepartNowMinutes * SecondsPerMinute < until
               /\ until <= EarlyWarningMinutes * SecondsPerMinute /\ ~sent_today
        THEN "EarlyWarning"
    ELSE IF until > TooEarlyMinutes * SecondsPerMinute
        THEN "none"
    ELSE IF until < 0
        THEN IF ~sent_today THEN "LateWarning" ELSE "none"
    ELSE "none"

\* mutant: the flag set by the early warning too
SentAfter_AnySend(emitted, delivered, sent_today) ==
    IF emitted # "none" THEN TRUE ELSE sent_today

\* self.notification_sent_today after the branch taken; delivered is what
\* send_notification returned
SentAfter(emitted, delivered, sent_today) ==
    IF emitted \in {"DepartureAlert", "LateWarning"} THEN TRUE ELSE sent_today

\* self.last_notification_time after the branch taken
LastAfter(emitted, current_time, last) ==
    IF emitted = "DepartureAlert" THEN current_time ELSE last

\* One run of check_traffic_and_notify entered at current_time: the request takes
\* latency seconds and answers http; delivered is the transport's answer to a send.
check_traffic_and_notify(current_time, http, latency, delivered, cfg, sent_today, last) ==
    LET route == get_full_route(cfg)
        waypoints == IF Len(route) > 2 THEN SubSeq(route, 2, Len(route) - 1) ELSE <<>>
        traffic_data == get_route_with_traffic(http, waypoints)
        clock == current_time + latency
        dep == calculate_departure_time(traffic_data, cfg.desired_arrival_time,
                                        cfg.buffer_minutes, clock)
        traffic_status == analyze_traffic(traffic_data, cfg.heavy_traffic_threshold)
        time_until_departure == dep[1] - current_time
        heavy == RatioAtLeast(traffic_data.traffic_ratio, cfg.heavy_traffic_threshold)
        emitted == Decide(time_until_departure, heavy, sent_today)
        quiet == [ran |-> TRUE, current_time |-> current_time, clock |-> clock,
                  http |-> http, result |-> traffic_data.kind,
                  departure_time |-> NoTime, travel_minutes |-> 0,
                  time_until_departure |-> 0, traffic_status |-> "",
                  emitted |-> "none", delivered |-> FALSE,
                  sent_before |-> sent_today, last_before |-> last,
                  sent_after |-> sent_today, last_after |-> last]
    IN  IF traffic_data.kind # "data" THEN quiet
        ELSE [quiet EXCEPT !.departure_time = dep[1], !.travel_minutes = dep[2],
                           !.time_until_departure = time_until_departure,
                           !.traffic_status = traffic_status,
                           !.emitted = emitted,
                           !.delivered = (emitted # "none" /\ delivered),
                           !.sent_after = SentAfter(emitted, delivered, sent_today),
                           !.last_after = LastAfter(emitted, current_time, last)]

\* a handler run that did not enter check_traffic_and_notify
NotRun(t, sent_today, last) ==
    [ran |-> FALSE, current_time |-> t, clock |-> t,
     http |-> HttpException, result |-> "None",
     departure_time |-> NoTime, travel_minutes |-> 0,
     time_until_departure |-> 0, traffic_status |-> "",
     emitted |-> "none", delivered |-> FALSE,
     sent_before |-> sent_today, last_before |-> last,
     sent_after |-> sent_today, last_after |-> last]

-----------------------------------------------------------------------------
(* smart_commute.py: _check_if_in_monitoring_window *)

ResetMinutes == 5
MonitorAfterArrivalMinutes == 30

\* line 162: the flag is reset on a tick in the first minutes after midnight
ResetDue(t) == HourOf(t) = 0 /\ MinuteOf(t) < ResetMinutes

\* now.replace(...) keeps the microseconds of now, so both ends of the window carry
\* them and the comparison of line 175 is one of whole seconds
WindowStart(cfg, t) == Replace(t, ParseHour(cfg.check_time), ParseMinute(cfg.check_time))

WindowEnd(cfg, t) ==
    Replace(t, ParseHour(cfg.desired_arrival_time), ParseMinute(cfg.desired_arrival_time))
        + MonitorAfterArrivalMinutes * SecondsPerMinute

\* mutant: the window with its end left out
InMonitoringWindow_EndExclusive(cfg, t) == WindowStart(cfg, t) <= t /\ t < WindowEnd(cfg, t)

\* line 175
InMonitoringWindow(cfg, t) == WindowStart(cfg, t) <= t /\ t <= WindowEnd(cfg, t)

_check_if_in_monitoring_window(t, http, latency, delivered, cfg, sent_today, last) ==
    LET sent == IF ResetDue(t) THEN FALSE ELSE sent_today
    IN  IF InMonitoringWindow(cfg, t)
        THEN check_traffic_and_notify(t, http, latency, delivered, cfg, sent, last)
        ELSE NotRun(t, sent, last)

-----------------------------------------------------------------------------
(* smart_commute.py: start, and the schedule library's jobs *)

MonitorEveryMinutes == 5
SleepSeconds == 30

\* schedule.every().day.at(check_time): today if that time is still ahead, else tomorrow
NextDailyRun(check_time, t) ==
    LET today == Replace(t, ParseHour(check_time), ParseMinute(check_time))
    IN  IF today > t THEN today ELSE today + SecondsPerDay

\* schedule.every(5).minutes: five minutes after the job was registered or last ran
NextMonitorRun(t) == t + MonitorEveryMinutes * SecondsPerMinute

\* run_pending runs the due jobs in the order of their next_run
DueJobs(t, daily, monitor) ==
    {j \in {"daily", "monitor"} : (IF j = "daily" THEN daily ELSE monitor) <= t}

RunsFirst(j, jobs, daily, monitor) ==
    /\ j \in jobs
    /\ \/ jobs = {j}
       \/ (j = "daily" /\ daily <= monitor)
       \/ (j = "monitor" /\ monitor < daily)

\* the day's count of notifications handed to the transport
NoSends(d) == [date |-> d, departure |-> 0, early |-> 0]

LogSend(log, rec) ==
    LET d == DateOf(rec.clock)
        base == IF log.date = d THEN log ELSE NoSends(d)
    IN  IF rec.emitted = "none" THEN log
        ELSE IF rec.emitted = "EarlyWarning"
             THEN [base EXCEPT !.early = @ + 1]
             ELSE [base EXCEPT !.departure = @ + 1]

\* the day's count of runs of line 163
NoResets(d) == [date |-> d, count |-> 0]

LogReset(log, t) ==
    LET d == DateOf(t)
        base == IF log.date = d THEN log ELSE NoResets(d)
    IN  IF ResetDue(t) THEN [base EXCEPT !.count = @ + 1] ELSE log

\* no call made, no update handled
Nothing == [op |-> "none"]

\* the assistant's state after a handler ran as rec says; an uncaught exception
\* leaves start() and ends the process
Finish(rec, by, resume) ==
    /\ trigger' = by
    /\ cycle' = rec
    /\ now' = rec.clock
    /\ notification_sent_today' = rec.sent_after
    /\ last_notification_time' = rec.last_after
    /\ sent_log' = LogSend(sent_log, rec)
    /\ pc' = IF rec.result = "raise" THEN "crashed" ELSE resume

\* the places the process is started at: a configuration and a time of start
Scenarios ==
    { <<CommuteConfig(<<17, 0>>, <<18, 0>>), At(0, h[1], h[2], 0)>> :
        h \in { <<16, 40>>, <<16, 59>>, <<17, 25>>, <<17, 55>>, <<18, 0>>,
               <<18, 25>> } }
    \cup
    { <<CommuteConfig(<<0, 0>>, <<1, 0>>), At(0, h[1], h[2], 0)>> :
        h \in { <<23, 51>> } }
    \cup
    { <<CommuteConfig(<<17, 0>>, <<16, 0>>), At(0, h[1], h[2], 0)>> :
        h \in { <<16, 59>> } }
    \cup
    { <<CommuteConfig(<<23, 0>>, <<23, 59>>), At(0, 23, 54, 59)>> }

Init ==
    /\ \E sc \in Scenarios :
        /\ config = sc[1]
        /\ now = sc[2]
        /\ cycle = NotRun(sc[2], FALSE, NoTime)
        /\ sent_log = NoSends(DateOf(sc[2]))
        /\ reset_log = NoResets(DateOf(sc[2]))
    /\ pc = "start"
    /\ notification_sent_today = FALSE
    /\ last_notification_time = NoTime
    /\ daily_next_run = NoTime
    /\ monitor_next_run = NoTime
    /\ runnable = {}
    /\ passes = 0
    /\ trigger = "none"
    /\ calc = Nothing
    /\ bot = Nothing
    /\ user_data = {}

\* start(): register the two jobs, then the initial check (lines 189-200)
Start ==
    /\ pc = "start"
    /\ \E http \in Responses, latency \in 0..MaxLatency, delivered \in BOOLEAN :
        Finish(check_traffic_and_notify(now, http, latency, delivered, config,
                                        notification_sent_today, last_notification_time),
               "start", "loop")
    /\ daily_next_run' = NextDailyRun(config.check_time, now)
    /\ monitor_next_run' = NextMonitorRun(now)
    /\ UNCHANGED <<config, runnable, passes, reset_log, aside>>

\* schedule.run_pending(): pick the jobs that are due (line 208)
RunPending ==
    /\ pc = "loop"
    /\ runnable' = DueJobs(now, daily_next_run, monitor_next_run)
    /\ pc' = "jobs"
    /\ passes' = passes + 1
    /\ UNCHANGED <<now, config, notification_sent_today, last_notification_time,
                   daily_next_run, monitor_next_run, trigger, cycle, sent_log,
                   reset_log, aside>>

\* the job of line 193: check_traffic_and_notify, daily at check_time
DailyJob ==
    /\ pc = "jobs"
    /\ RunsFirst("daily", runnable, daily_next_run, monitor_next_run)
    /\ \E http \in Responses, latency \in 0..MaxLatency, delivered \in BOOLEAN :
        Finish(check_traffic_and_notify(now, http, latency, delivered, config,
                                        notification_sent_today, last_notification_time),
               "daily", "jobs")
    /\ daily_next_run' = NextDailyRun(config.check_time, now')
    /\ runnable' = runnable \ {"daily"}
    /\ UNCHANGED <<config, monitor_next_run, passes, reset_log, aside>>

\* the job of line 196: _check_if_in_monitoring_window, every five minutes
MonitorTick ==
    /\ pc = "jobs"
    /\ RunsFirst("monitor", runnable, daily_next_run, monitor_next_run)
    /\ \E http \in Responses, latency \in 0..MaxLatency, delivered \in BOOLEAN :
        Finish(_check_if_in_monitoring_window(now, http, latency, delivered, config,
                                              notification_sent_today,
                                              last_notification_time),
               "monitor", "jobs")
    /\ monitor_next_run' = NextMonitorRun(now')
    /\ runnable' = runnable \ {"monitor"}
    /\ reset_log' = LogReset(reset_log, now)
    /\ UNCHANGED <<config, daily_next_run, passes, aside>>

\* time.sleep(30) once the pass has run its jobs (line 209)
Sleep ==
    /\ pc = "jobs"
    /\ runnable = {}
    /\ passes < MaxPasses
    /\ now' = now + SleepSeconds
    /\ pc' = "loop"
    /\ UNCHANGED <<config, notification_sent_today, last_notification_time,
                   daily_next_run, monitor_next_run, runnable, passes, trigger, cycle,
                   sent_log, reset_log, aside>>

Next == Start \/ RunPending \/ DailyJob \/ MonitorTick \/ Sleep

Spec == Init /\ [][Next]_vars

-----------------------------------------------------------------------------
(* the functions of traffic_monitor.py called on their own *)

\* the assistant as constructed, its loop not started
Idle ==
    /\ config = CommuteConfig(<<17, 0>>, <<18, 0>>)
    /\ now = At(0, 17, 0, 0)
    /\ cycle = NotRun(now, FALSE, NoTime)
    /\ sent_log = NoSends(0)
    /\ reset_log = NoResets(0)
    /\ pc = "start"
    /\ notification_sent_today = FALSE
    /\ last_notification_time = NoTime
    /\ daily_next_run = NoTime
    /\ monitor_next_run = NoTime
    /\ runnable = {}
    /\ passes = 0
    /\ trigger = "none"
    /\ calc = Nothing
    /\ bot = Nothing
    /\ user_data = {}

assistant == <<now, pc, notification_sent_today, last_notification_time,
               daily_next_run, monitor_next_run, runnable, passes, trigger, cycle,
               sent_log, reset_log>>

\* inputs of calculate_departure_time
TrafficSeconds == {1, 59, 60, 1800, 1830, 1859, 2700}
ArrivalTimes == { <<18, 0>>, <<0, 0>>, <<0, 30>>, <<23, 59>> }
BufferMinutes == {0, 10, 15}
Clocks == { At(0, h, m, sec) : h \in {0, 17, 18, 23}, m \in {0, 59}, sec \in {0, 1, 59} }

CalculateDepartureTime ==
    \E seconds \in TrafficSeconds, arrival_time \in ArrivalTimes,
       buffer_minutes \in BufferMinutes, clock \in Clocks :
        LET traffic_data == Data(1800, seconds, 20000, <<>>)
            r == calculate_departure_time(traffic_data, arrival_time, buffer_minutes, clock)
        IN  /\ calc' = [op |-> "calculate_departure_time", seconds |-> seconds,
                        arrival_time |-> arrival_time, buffer_minutes |-> buffer_minutes,
                        clock |-> clock, departure_time |-> r[1], travel_minutes |-> r[2]]
            /\ UNCHANGED <<assistant, config, bot, user_data>>

\* inputs of analyze_traffic: seconds in traffic per 100 seconds without, thresholds
MaxRatioPercent == 200
RatioPercents == {90, 100, 104, 105, 109, 110, 111, 129, 130, 131, 150, MaxRatioPercent}
Thresholds == { <<13, 10>>, <<1, 1>>, <<105, 100>>, <<11, 10>>, <<15, 10>>, <<2, 1>> }

AnalyzeTraffic ==
    \E percent \in RatioPercents, threshold \in Thresholds :
        LET traffic_data == Data(100, percent, 20000, <<>>)
        IN  /\ calc' = [op |-> "analyze_traffic", percent |-> percent,
                        threshold |-> threshold,
                        status |-> analyze_traffic(traffic_data, threshold)]
            /\ UNCHANGED <<assistant, config, bot, user_data>>

\* inputs of _parse_route_data: a route of k legs, a list of n waypoints
MaxLegs == 3
MaxWaypoints == 3
Addresses == {"gym", "school", "store"}
LegsOf(k) == [i \in 1..k |-> Leg(600 * i, 700 * i, 1000 * i)]
WaypointLists == UNION { [1..n -> Addresses] : n \in 0..MaxWaypoints }

ParseRouteData ==
    \E k \in 1..MaxLegs, waypoints \in WaypointLists :
        LET r == _parse_route_data(HttpOK(<<Route(LegsOf(k))>>), waypoints)
        IN  /\ calc' = [op |-> "_parse_route_data", legs |-> k, waypoints |-> waypoints,
                        stops |-> r.waypoints]
            /\ UNCHANGED <<assistant, config, bot, user_data>>

NextCalc == CalculateDepartureTime \/ AnalyzeTraffic \/ ParseRouteData

SpecCalc == Idle /\ [][NextCalc]_vars

-----------------------------------------------------------------------------
(* telegram_bot.py: the handlers of the updates the bot receives.  A text is
   the sequence of its characters. *)

UpperCase == <<"A", "B", "C", "D", "E", "F", "G", "H", "I", "J", "K", "L", "M",
               "N", "O", "P", "Q", "R", "S", "T", "U", "V", "W", "X", "Y", "Z">>
LowerCase == <<"a", "b", "c", "d", "e", "f", "g", "h", "i", "j", "k", "l", "m",
               "n", "o", "p", "q", "r", "s", "t", "u", "v", "w", "x", "y", "z">>

\* str.lower()
lower(text) ==
    [i \in 1..Len(text) |->
        IF \E k \in 1..Len(UpperCase) : UpperCase[k] = text[i]
        THEN LowerCase[CHOOSE k \in 1..Len(UpperCase) : UpperCase[k] = text[i]]
        ELSE text[i]]

StartsAt(text, word, i) ==
    /\ i + Len(word) - 1 <= Len(text)
    /\ \A j \in 1..Len(word) : text[i + j - 1] = word[j]

\* word in text
Contains(text, word) == \E i \in 1..Len(text) : StartsAt(text, word, i)

\* text.split(word, 1)[1]: what follows the first occurrence of word
AfterFirst(text, word) ==
    LET i == CHOOSE i \in 1..Len(text) :
                StartsAt(text, word, i) /\ \A j \in 1..(i - 1) : ~StartsAt(text, word, j)
    IN  SubSeq(text, i + Len(word), Len(text))

IsSpace(c) == c \in {" ", "\t", "\n"}

RECURSIVE lstrip(_)
lstrip(text) ==
    IF text = <<>> \/ ~IsSpace(Head(text)) THEN text ELSE lstrip(Tail(text))

RECURSIVE rstrip(_)
rstrip(text) ==
    IF text = <<>> \/ ~IsSpace(text[Len(text)]) THEN text
    ELSE rstrip(SubSeq(text, 1, Len(text) - 1))

\* str.strip()
strip(text) == rstrip(lstrip(text))

RECURSIVE join(_)
\* ' '.join(args)
join(args) ==
    IF args = <<>> THEN <<>>
    ELSE IF Len(args) = 1 THEN args[1]
    ELSE args[1] \o <<" ">> \o join(Tail(args))

\* what a handler did: the configuration it leaves, its reply, and the address
\* it handed to the configuration (NoStop when none)
NoStop == <<>>
Handled(cfg, reply, stop) == [config |-> cfg, reply |-> reply, stop |-> stop]

cmd_add_stop(args, cfg) ==
    IF args = <<>> THEN Handled(cfg, "Please specify a location", NoStop)
    ELSE LET stop == join(args)
             r == add_waypoint(cfg, stop)
         IN  IF r.result THEN Handled(r.config, "Added stop", stop)
             ELSE Handled(r.config, "already exists", stop)

cmd_remove_stop(args, cfg) ==
    IF args = <<>> THEN Handled(cfg, "Please specify which stop", NoStop)
    ELSE LET stop == join(args)
             r == remove_waypoint(cfg, stop)
         IN  IF r.result THEN Handled(r.config, "Removed stop", stop)
             ELSE Handled(r.config, "not found", stop)

cmd_clear_stops(cfg) == Handled(clear_waypoints(cfg), "Cleared", NoStop)

Keywords == << <<"a", "d", "d">>,
               <<"s", "t", "o", "p", " ", "a", "t">>,
               <<"s", "t", "o", "p", " ", "b", "y">> >>
WordClear == <<"c", "l", "e", "a", "r">>
WordStop == <<"s", "t", "o", "p">>
WordStatus == <<"s", "t", "a", "t", "u", "s">>
WordInfo == <<"i", "n", "f", "o">>

handle_message(message, cfg) ==
    LET text == lower(message)
        location(k) == strip(AfterFirst(text, Keywords[k]))
        hits == { k \in 1..Len(Keywords) :
                    Contains(text, Keywords[k]) /\ location(k) # <<>> }
    IN  IF \E k \in 1..Len(Keywords) : Contains(text, Keywords[k])
        THEN IF hits # {}
             THEN LET k == CHOOSE k \in hits : \A h \in hits : k <= h
                  IN  Handled(add_waypoint(cfg, location(k)).config, "Added", location(k))
             ELSE Handled(cfg, "I'm not sure what you mean", NoStop)
        ELSE IF Contains(text, WordClear) /\ Contains(text, WordStop)
        THEN Handled(clear_waypoints(cfg), "Cleared", NoStop)
        ELSE IF Contains(text, WordStatus) \/ Contains(text, WordInfo)
        THEN Handled(cfg, "Current Configuration", NoStop)
        ELSE Handled(cfg, "I'm not sure what you mean", NoStop)

\* the words of the commands and the texts of the messages the bot is sent
Gym == <<"g", "y", "m">>
GymCapital == <<"G", "y", "m">>
Store == <<"s", "t", "o", "r", "e">>
Whole == <<"W", "h", "o", "l", "e">>
Foods == <<"F", "o", "o", "d", "s">>
Args == { <<>>, <<Gym>>, <<GymCapital>>, <<Store>>, <<Whole, Foods>> }
Messages ==
    { <<"A", "d", "d", " ">> \o GymCapital,
      <<"a", "d", "d", " ", " ">> \o Store \o <<" ">>,
      <<"S", "t", "o", "p", " ", "a", "t", " ">> \o Store,
      <<"s", "t", "o", "p", " ", "b", "y", " ">> \o lower(Whole) \o <<" ">> \o lower(Foods),
      <<"a", "d", "d">>,
      <<"C", "l", "e", "a", "r", " ", "a", "l", "l", " ", "s", "t", "o", "p", "s">>,
      <<"s", "t", "a", "t", "u", "s">>,
      <<"h", "e", "l", "l", "o">> }

\* the update a handler has dealt with: the list it found, what the user was
\* told, the address handed to the configuration
Update(op, input, h) ==
    [op |-> op, input |-> input, before |-> config.waypoints,
     reply |-> h.reply, stop |-> h.stop]

CmdAddStop ==
    \E args \in Args :
        LET h == cmd_add_stop(args, config)
        IN  /\ bot' = Update("cmd_add_stop", args, h)
            /\ config' = h.config
            /\ UNCHANGED <<assistant, calc, user_data>>

CmdRemoveStop ==
    \E args \in Args :
        LET h == cmd_remove_stop(args, config)
        IN  /\ bot' = Update("cmd_remove_stop", args, h)
            /\ config' = h.config
            /\ UNCHANGED <<assistant, calc, user_data>>

CmdClearStops ==
    LET h == cmd_clear_stops(config)
    IN  /\ bot' = Update("cmd_clear_stops", <<>>, h)
        /\ config' = h.config
        /\ UNCHANGED <<assistant, calc, user_data>>

HandleMessage ==
    \E message \in Messages :
        LET h == handle_message(message, config)
        IN  /\ bot' = Update("handle_message", message, h)
            /\ config' = h.config
            /\ UNCHANGED <<assistant, calc, user_data>>

NextBot == CmdAddStop \/ CmdRemoveStop \/ CmdClearStops \/ HandleMessage

SpecBot == Idle /\ [][NextBot]_vars

-----------------------------------------------------------------------------
(* the assistant's loop with the bot's /check handler beside it *)

\* cmd_check_now: the reply, then context.user_data['check_requested'] = True
CmdCheckNow ==
    /\ pc \in {"loop", "jobs"}                  \* the assistant is up and running
    /\ bot' = [op |-> "cmd_check_now", input |-> <<>>, before |-> config.waypoints,
               reply |-> "Checking traffic now...", stop |-> NoStop]
    /\ user_data' = user_data \cup {"check_requested"}
    /\ UNCHANGED <<assistant, config, calc>>

NextCheck == Next \/ CmdCheckNow

\* start() loops for ever (while True, lines 206-209): the loop keeps taking steps
SpecCheck == Init /\ [][NextCheck]_vars /\ WF_vars(Next)

TypeOK ==
    /\ pc \in {"start", "loop", "jobs", "crashed"}
    /\ notification_sent_today \in BOOLEAN
    /\ trigger \in {"none", "start", "daily", "monitor"}
    /\ runnable \subseteq {"daily", "monitor"}
    /\ passes \in 0..MaxPasses
    /\ cycle.emitted \in {"none", "DepartureAlert", "EarlyWarning", "LateWarning"}

-----------------------------------------------------------------------------
(* Claims *)

\* C1: within one calendar day, DepartureAlert and LateWarning together are handed
\* to the transport at most once, whatever handler ran the cycle and whatever the
\* configured check and arrival times.
C1_OneDeparturePerDay == sent_log.departure <= 1

\* C2: within one calendar day at most one EarlyWarning is handed to the transport.
C2_OneEarlyWarningPerDay == sent_log.early <= 1

\* C3: when the transport fails to deliver a DepartureAlert or a LateWarning,
\* notification_sent_today is not set by that cycle, so the send is tried again.
C3_FailedDeliveryKeepsFlag ==
    (cycle.emitted \in {"DepartureAlert", "LateWarning"} /\ ~cycle.delivered)
        => notification_sent_today = cycle.sent_before

\* C4: once notification_sent_today is true, no handler run hands any notification
\* to the transport and the flag stays true, until a monitoring tick in the
\* midnight reset window clears it.
C4_NotifiedIsTerminal ==
    [][ ( /\ notification_sent_today
          /\ Start \/ DailyJob \/ (MonitorTick /\ ~ResetDue(now)) )
        => (cycle'.emitted = "none" /\ notification_sent_today') ]_vars

\* C4 witness: with the flag set, a cycle got a valid sample that put the departure
\* in the past, and sent nothing.
C4_Witness ==
    /\ cycle.ran /\ cycle.result = "data"
    /\ cycle.sent_before /\ notification_sent_today
    /\ cycle.time_until_departure < 0
    /\ cycle.emitted = "none"

\* the admission window of the date of t, from the configured times of day
AdmissionWindow(t) ==
    LET day == DateOf(t)
        from == At(day, config.check_time[1], config.check_time[2], 0)
        to == At(day, config.desired_arrival_time[1], config.desired_arrival_time[2], 0)
                  + 30 * 60
    IN  from <= t /\ t <= to

\* C5 as stated: every cycle, whatever triggered it, runs at a time inside the
\* admission window [checkTime, desiredArrivalTime + 30 min] of the current date.
C5_EveryCycleInWindow == cycle.ran => AdmissionWindow(cycle.current_time)

\* C5 amended: a monitoring tick runs a cycle exactly when its time is inside the
\* admission window (both ends included); outside it the tick fetches no sample and
\* hands nothing to the transport.
C5_MonitorTickGated ==
    trigger = "monitor" =>
        /\ cycle.ran <=> AdmissionWindow(cycle.current_time)
        /\ ~cycle.ran => (cycle.emitted = "none" /\ cycle.clock = cycle.current_time
                          /\ cycle.sent_after = cycle.sent_before)

\* C5 witness: a monitoring tick admitted at the very end of the window, 18:30:00.
C5_Witness ==
    /\ trigger = "monitor" /\ cycle.ran
    /\ config.desired_arrival_time = <<18, 0>>
    /\ TimeOfDay(cycle.current_time) = At(0, 18, 30, 0)

\* C6: a sample whose total duration without traffic is zero is handled like a
\* provider failure: nothing is sent, the notification state is unchanged and the
\* polling loop goes on.
C6_ZeroDurationIsFailure ==
    (cycle.ran /\ cycle.http = ZeroDurationResponse) =>
        /\ cycle.emitted = "none"
        /\ notification_sent_today = cycle.sent_before
        /\ last_notification_time = cycle.last_before
        /\ pc # "crashed"

\* C7: when the provider call fails (request exception or a status other than OK)
\* the cycle computes no decision, sends nothing, leaves notification_sent_today
\* and last_notification_time as they were when it was entered, and the loop goes on.
C7_ProviderFailureIsNoOp ==
    (cycle.ran /\ (cycle.http.exc \/ cycle.http.status # "OK")) =>
        /\ cycle.result = "None"
        /\ cycle.departure_time = NoTime
        /\ cycle.emitted = "none"
        /\ notification_sent_today = cycle.sent_before
        /\ last_notification_time = cycle.last_before
        /\ pc # "crashed"

\* C7 witness: a monitoring tick whose request got a status other than OK, with
\* the flag set before it, and the loop still running.
C7_Witness ==
    /\ trigger = "monitor" /\ cycle.ran
    /\ ~cycle.http.exc /\ cycle.http.status # "OK"
    /\ notification_sent_today
    /\ pc = "loop"

\* C8: a response with status OK and no route, or a route with no leg, makes the
\* sampler return an error value (None); no exception escapes.
C8_EmptyRouteIsSampleError ==
    (cycle.ran /\ cycle.http \in {NoRouteResponse, NoLegResponse}) =>
        (cycle.result = "None" /\ pc # "crashed")

\* the sample of the end-to-end scenarios: 1800 s without traffic, 2700 s with
ScenarioResponse == HttpOK(<< Route(<< Leg(1800, 2700, 20000) >>) >>)

\* a cycle of the scenarios' configuration entered at hh:mm:00 with that sample
ScenarioCycleAt(hh, mm) ==
    /\ cycle.ran /\ cycle.http = ScenarioResponse
    /\ config.desired_arrival_time = <<18, 0>> /\ config.buffer_minutes = 10
    /\ TimeOfDay(cycle.current_time) = At(0, hh, mm, 0)

\* C9: on a cycle with a valid sample a DepartureAlert is sent exactly when the
\* departure is 0 to 5 minutes ahead (both ends included) and the flag was false,
\* and sending it sets the flag; at 17:00 with arrival 18:00, buffer 10 and 2700 s
\* of travel the departure is exactly 5 minutes ahead and the alert is sent.
C9_DepartureAlertRule ==
    (cycle.ran /\ cycle.result = "data") =>
        LET until == cycle.departure_time - cycle.current_time
        IN  /\ cycle.emitted = "DepartureAlert"
                <=> (0 <= until /\ until <= 5 * 60 /\ ~cycle.sent_before)
            /\ cycle.emitted = "DepartureAlert" => notification_sent_today
            /\ ScenarioCycleAt(17, 0) =>
                /\ until = 5 * 60
                /\ ~cycle.sent_before => cycle.emitted = "DepartureAlert"

\* C9 witness: scenario C, the alert sent at 17:00:00 with the departure 5 minutes ahead.
C9_Witness ==
    /\ ScenarioCycleAt(17, 0)
    /\ cycle.time_until_departure = 5 * 60
    /\ cycle.emitted = "DepartureAlert"
    /\ notification_sent_today

\* C10: on a cycle with a valid sample a LateWarning is sent exactly when the
\* departure is in the past and the flag was false, and sending it sets the flag; at
\* 17:25 with arrival 18:00, buffer 10 and 2700 s of travel, travel_minutes is 55,
\* the departure is 17:05 of that day, 20 minutes ago, and the warning is sent.
C10_LateWarningRule ==
    (cycle.ran /\ cycle.result = "data") =>
        LET until == cycle.departure_time - cycle.current_time
        IN  /\ cycle.emitted = "LateWarning" <=> (until < 0 /\ ~cycle.sent_before)
            /\ cycle.emitted = "LateWarning" => notification_sent_today
            /\ ScenarioCycleAt(17, 25) =>
                /\ cycle.travel_minutes = 55
                /\ cycle.departure_time = At(DateOf(cycle.current_time), 17, 5, 0)
                /\ until = 0 - 20 * 60
                /\ ~cycle.sent_before => cycle.emitted = "LateWarning"

\* C10 witness: scenario A, the late warning sent at 17:25:00.
C10_Witness ==
    /\ ScenarioCycleAt(17, 25)
    /\ cycle.time_until_departure = 0 - 20 * 60
    /\ cycle.emitted = "LateWarning"
    /\ notification_sent_today

\* the traffic ratio of the one-leg sample of a cycle is at or above the threshold
HeavySample(http) ==
    LET leg == http.routes[1].legs[1]
        with == IF leg.duration_in_traffic = NoValue THEN leg.duration
                ELSE leg.duration_in_traffic
    IN  with * config.heavy_traffic_threshold[2]
            >= config.heavy_traffic_threshold[1] * leg.duration

\* C11: on a cycle with a valid sample an EarlyWarning is sent exactly when the
\* ratio is at or above the heavy threshold, the departure is more than 5 and at
\* most 20 minutes ahead and the flag was false, whether or not one was already
\* sent that day; sending it leaves the flag false.
C11_EarlyWarningRule ==
    (cycle.ran /\ cycle.result = "data") =>
        LET until == cycle.departure_time - cycle.current_time
        IN  /\ cycle.emitted = "EarlyWarning"
                <=> (/\ HeavySample(cycle.http)
                     /\ 5 * 60 < until /\ until <= 20 * 60
                     /\ ~cycle.sent_before)
            /\ cycle.emitted = "EarlyWarning" => ~notification_sent_today

\* C11 witness: the second EarlyWarning of one day, the flag still false.
C11_Witness ==
    /\ cycle.ran /\ cycle.emitted = "EarlyWarning"
    /\ sent_log.early = 2
    /\ ~notification_sent_today

\* C12: on a cycle with a valid sample and the departure more than 20 minutes
\* ahead nothing is sent and the notification state is unchanged, whatever the
\* severity; at 16:40 with the heavy sample of scenario A the departure is 25
\* minutes ahead and nothing is sent.
C12_QuietAboveTwenty ==
    (cycle.ran /\ cycle.result = "data") =>
        LET until == cycle.departure_time - cycle.current_time
        IN  /\ until > 20 * 60 =>
                /\ cycle.emitted = "none"
                /\ notification_sent_today = cycle.sent_before
                /\ last_notification_time = cycle.last_before
            /\ ScenarioCycleAt(16, 40) =>
                /\ until = 25 * 60
                /\ HeavySample(cycle.http)
                /\ cycle.emitted = "none"

\* C12 witness: scenario B, a heavy sample at 16:40:00, 25 minutes ahead, nothing sent.
C12_Witness ==
    /\ ScenarioCycleAt(16, 40)
    /\ cycle.result = "data"
    /\ cycle.time_until_departure = 25 * 60
    /\ cycle.traffic_status = "Heavy traffic"
    /\ cycle.emitted = "none"
    /\ ~notification_sent_today

\* C13: the reset of the flag runs exactly once per calendar day: once the first
\* five minutes of a day the process entered running have passed, the reset has
\* run once that day (day 0 is the day the process was started on).
C13_ResetOncePerDay ==
    /\ reset_log.count <= 1
    /\ (pc \in {"loop", "jobs"} /\ DateOf(now) > 0
            /\ TimeOfDay(now) >= 5 * 60)
        => (reset_log.date = DateOf(now) /\ reset_log.count = 1)

\* C19: within one cycle the target arrival is resolved against the same now
\* that the time until departure is measured from (current_time), so that the
\* departure timestamp is a function of the sample, the desired arrival, the
\* buffer and that now.
C19_OneNowPerCycle ==
    (cycle.ran /\ cycle.result = "data") =>
        LET arrival == config.desired_arrival_time
            today == Replace(cycle.current_time, ParseHour(arrival), ParseMinute(arrival))
            target == IF today < cycle.current_time THEN today + SecondsPerDay ELSE today
            seconds == SumOver(cycle.http.routes[1].legs, "duration_in_traffic", 1)
        IN  /\ cycle.departure_time
                    = target - (seconds + config.buffer_minutes * SecondsPerMinute)
            /\ cycle.time_until_departure = cycle.departure_time - cycle.current_time

\* the target arrival a call of calculate_departure_time used: what it returned
\* plus the travel time it subtracted
CalcCall == calc.op = "calculate_departure_time"
CalcTarget == calc.departure_time + calc.seconds + calc.buffer_minutes * 60
CalcToday == At(DateOf(calc.clock), calc.arrival_time[1], calc.arrival_time[2], 0)

\* C14: the resolved target arrival is never before now: it is today's occurrence
\* of the desired time-of-day when that is not strictly before now, and the
\* occurrence on the following calendar day otherwise.
C14_TargetNeverBeforeNow ==
    CalcCall =>
        /\ CalcTarget >= calc.clock
        /\ CalcToday >= calc.clock => CalcTarget = CalcToday
        /\ CalcToday < calc.clock => CalcTarget = CalcToday + 24 * 60 * 60

C14_Witness ==
    /\ CalcCall
    /\ calc.clock = At(0, 18, 0, 1) /\ calc.arrival_time = <<18, 0>>
    /\ calc.seconds = 1830 /\ calc.buffer_minutes = 10
    /\ calc.departure_time = At(1, 17, 19, 30)

\* ceil(seconds / 60)
CeilMinutes(seconds) == (seconds + 59) \div 60

\* C15 as stated: travelMinutes is ceil(seconds / 60) + buffer and the departure
\* is the target arrival minus that many whole minutes.
C15_CeilWholeMinutes ==
    CalcCall =>
        /\ calc.travel_minutes = CeilMinutes(calc.seconds) + calc.buffer_minutes
        /\ calc.departure_time
                = TargetArrival(calc.arrival_time, calc.clock) - calc.travel_minutes * 60

\* C15 amended: travel_minutes is floor(seconds / 60) + buffer, and the departure
\* is the target arrival minus the duration in seconds and the buffer in minutes,
\* exact to the second.
C15_FloorMinutesExactSeconds ==
    CalcCall =>
        LET target == IF CalcToday < calc.clock THEN CalcToday + 24 * 60 * 60
                      ELSE CalcToday
        IN  /\ calc.travel_minutes = (calc.seconds \div 60) + calc.buffer_minutes
            /\ calc.departure_time = target - (calc.seconds + calc.buffer_minutes * 60)
            /\ calc.seconds % 60 = 0
                <=> calc.departure_time = target - calc.travel_minutes * 60

C15_Witness ==
    /\ CalcCall
    /\ calc.clock = At(0, 17, 0, 0) /\ calc.arrival_time = <<18, 0>>
    /\ calc.seconds = 1859 /\ calc.buffer_minutes = 10
    /\ calc.travel_minutes = 40
    /\ calc.departure_time = At(0, 17, 19, 1)

\* severity tiers in rising order
Tier(status) ==
    CASE status = "Light traffic" -> 0
      [] status = "Moderate traffic" -> 1
      [] status = "Heavy traffic" -> 2

\* C16: a ratio at or above the heavy threshold is heavy, otherwise a ratio at or
\* above 1.1 is moderate, otherwise it is light, for every threshold, also one
\* below 1.1; and no higher ratio gets a lower tier under the same threshold.
C16_SeverityMonotonic ==
    calc.op = "analyze_traffic" =>
        LET heavy == calc.percent * calc.threshold[2] >= calc.threshold[1] * 100
            moderate == calc.percent >= 110
        IN  /\ calc.status = IF heavy THEN "Heavy traffic"
                             ELSE IF moderate THEN "Moderate traffic"
                             ELSE "Light traffic"
            /\ \A higher \in RatioPercents :
                higher >= calc.percent =>
                    Tier(analyze_traffic(Data(100, higher, 20000, <<>>), calc.threshold))
                        >= Tier(calc.status)

C16_Witness ==
    /\ calc.op = "analyze_traffic"
    /\ calc.threshold = <<105, 100>> /\ calc.percent = 105
    /\ calc.status = "Heavy traffic"

ParseCall == calc.op = "_parse_route_data"

\* C20 as stated: every requested waypoint has its entry, in input order, paired
\* with the leg that ends at it, and a waypoint beyond the leg count is listed
\* with the address unknown.
C20_EveryWaypointListed ==
    ParseCall =>
        /\ Len(calc.stops) = Len(calc.waypoints)
        /\ \A i \in 1..Len(calc.stops) :
            /\ i < calc.legs =>
                /\ calc.stops[i].address = calc.waypoints[i]
                /\ calc.stops[i].duration_to_next = 600 * i
            /\ i > calc.legs => calc.stops[i].address = "Unknown"

\* C20 amended: with waypoints requested the list has one entry per leg but the
\* last, in leg order, carrying that leg's duration and distance and the address
\* of the waypoint of the same index, or "Unknown" when there is no such
\* waypoint; waypoints beyond the last but one leg are not listed; with no
\* waypoints requested the list is empty.
C20_OneEntryPerInnerLeg ==
    ParseCall =>
        IF Len(calc.waypoints) = 0 THEN calc.stops = <<>>
        ELSE /\ Len(calc.stops) = calc.legs - 1
             /\ \A i \in 1..(calc.legs - 1) :
                /\ calc.stops[i].duration_to_next = 600 * i
                /\ calc.stops[i].distance_to_next = 1000 * i
                /\ calc.stops[i].address
                        = IF i <= Len(calc.waypoints) THEN calc.waypoints[i] ELSE "Unknown"

C20_Witness ==
    /\ ParseCall
    /\ calc.legs = 3 /\ calc.waypoints = <<"gym">>
    /\ Len(calc.stops) = 2
    /\ calc.stops[1].address = "gym" /\ calc.stops[2].address = "Unknown"

NoDuplicates(list) == \A i, j \in 1..Len(list) : list[i] = list[j] => i = j

\* an update that asked for a stop to be added
AddOf(stop) ==
    /\ bot.op \in {"cmd_add_stop", "handle_message"}
    /\ bot.stop = stop /\ stop # NoStop

\* C17: whatever entry point the operations come through, the waypoint list has
\* no duplicate address, and an add of an address already in the list leaves the
\* list unchanged and is answered with "already exists".
C17_DuplicateAddReported ==
    /\ NoDuplicates(config.waypoints)
    /\ (AddOf(bot.stop) /\ In(bot.stop, bot.before))
            => /\ config.waypoints = bot.before
               /\ bot.reply = "already exists"

\* C18: add appends at the end (and changes nothing for an address already in
\* the list), remove deletes only the named address and keeps the order of the
\* rest (and changes nothing when the address is absent), clear empties the
\* list; the full route is the work address, the waypoints in their order, the
\* home address.
C18_InsertionOrderKept ==
    LET list == config.waypoints
        route == get_full_route(config)
        cleared == \/ bot.op = "cmd_clear_stops"
                   \/ bot.op = "handle_message" /\ bot.reply = "Cleared"
    IN  /\ AddOf(bot.stop) =>
            list = IF In(bot.stop, bot.before) THEN bot.before
                   ELSE bot.before \o <<bot.stop>>
        /\ (bot.op = "cmd_remove_stop" /\ bot.stop # NoStop) =>
            list = SelectSeq(bot.before, LAMBDA a : a # bot.stop)
        /\ cleared => list = <<>>
        /\ (bot.op # "none" /\ bot.stop = NoStop /\ ~cleared) => list = bot.before
        /\ Len(route) = Len(list) + 2
        /\ route[1] = config.work_address
        /\ route[Len(route)] = config.home_address
        /\ \A i \in 1..Len(list) : route[i + 1] = list[i]

C18_Witness ==
    /\ bot.op = "cmd_remove_stop" /\ bot.stop = Store
    /\ bot.before = <<Gym, Store, Whole \o <<" ">> \o Foods>>
    /\ config.waypoints = <<Gym, Whole \o <<" ">> \o Foods>>
    /\ get_full_route(config) = <<"work", Gym, Whole \o <<" ">> \o Foods, "home">>

\* C21: after a /check command has been handled, a sample/decision cycle is
\* eventually run in response to it.
C21_CheckNowRunsCycle == ("check_requested" \in user_data) ~> (trigger = "check")

\* the last cycle ran, with a sample, in the half hour after today's arrival time
AfterArrivalToday ==
    LET arrival == At(DateOf(cycle.current_time), config.desired_arrival_time[1],
                      config.desired_arrival_time[2], 0)
    IN  /\ cycle.ran /\ cycle.result = "data"
        /\ arrival < cycle.current_time
        /\ cycle.current_time <= arrival + 30 * 60

\* travel time plus buffer of the last cycle's sample, in seconds
CycleTravel ==
    SumOver(cycle.http.routes[1].legs, "duration_in_traffic", 1)
        + config.buffer_minutes * 60

CycleQuiet ==
    /\ cycle.emitted = "none"
    /\ cycle.sent_after = cycle.sent_before
    /\ cycle.last_after = cycle.last_before

\* C22 as stated: a cycle in (arrival, arrival + 30 minutes] emits nothing and
\* changes no state when travel time plus buffer is below 23.5 hours.
C22_QuietBelowTwentyThreeAndAHalf ==
    (AfterArrivalToday /\ CycleTravel < 23 * 60 * 60 + 30 * 60) => CycleQuiet

\* C22 amended: a cycle in (arrival, arrival + 30 minutes] emits nothing and
\* changes no state when travel time plus buffer is below 23 hours: the target
\* arrival is tomorrow's and the time until departure exceeds 30 minutes; and a
\* LateWarning is emitted only after the recommended departure and not after the
\* target arrival.
C22_QuietBelowTwentyThree ==
    /\ (AfterArrivalToday /\ CycleTravel < 23 * 60 * 60) =>
        /\ CycleQuiet
        /\ cycle.time_until_departure > 30 * 60
        /\ DateOf(cycle.departure_time + CycleTravel) = DateOf(cycle.current_time) + 1
    /\ (cycle.ran /\ cycle.emitted = "LateWarning") =>
        /\ cycle.departure_time < cycle.current_time
        /\ cycle.current_time <= cycle.departure_time + CycleTravel
        /\ CycleTravel < 23 * 60 * 60 => ~AfterArrivalToday

C22_Witness ==
    /\ AfterArrivalToday /\ trigger = "monitor"
    /\ cycle.current_time = At(0, 18, 30, 0)
    /\ CycleTravel = 2700 + 600
    /\ cycle.departure_time = At(1, 17, 5, 0)
    /\ cycle.emitted = "none" /\ ~notification_sent_today

\* the last cycle ran, with a sample, in the five minutes up to today's arrival
\* time, the flag unset
LastFiveMinutes ==
    LET arrival == At(DateOf(cycle.current_time), config.desired_arrival_time[1],
                      config.desired_arrival_time[2], 0)
    IN  /\ cycle.ran /\ cycle.result = "data" /\ ~cycle.sent_before
        /\ arrival - 5 * 60 <= cycle.current_time
        /\ cycle.current_time <= arrival

\* C23: a scheduled tick with a sample, run in [arrival - 5 minutes, arrival]
\* while the flag is unset, emits a DepartureAlert or a LateWarning.
C23_NoMissedNotification ==
    (LastFiveMinutes /\ trigger \in {"daily", "monitor"})
        => cycle.emitted \in {"DepartureAlert", "LateWarning"}

=============================================================================
